---- MODULE Spec2Model ----
(***************************************************************************)
(* Model of the CTFtime archive enricher (src/enrich_ctf_data.py).         *)
(*                                                                         *)
(* A date text is a sequence of whitespace-delimited tokens; the dash is a *)
(* token of its own.  Optional Python values are sequences of length <= 1: *)
(* None is <<>> and a present value x is <<x>>.  Durations are integers in *)
(* hundredths of an hour (the two decimals the code rounds to).            *)
(***************************************************************************)
EXTENDS Integers, Sequences, FiniteSets, TLC

VARIABLES file, today, pc, pos, events, year_sequences,
          parse_failures, duration_outliers, results, runs, fresh, last_parse

vars == <<file, today, pc, pos, events, year_sequences,
          parse_failures, duration_outliers, results, runs, fresh, last_parse>>

\* ------------------------------------------------------------ bounds
MaxRows == 3
MaxRuns == 2

\* ------------------------------------------------- optional values
None == <<>>

Some(x) == <<x>>

IsNone(o) == o = <<>>

Val(o) == o[1]

\* ------------------------------------------------- tokens of a text
\* k: kind; a, b, c: the token's numbers.
Tok(k, a, b, c) == [k |-> k, a |-> a, b |-> b, c |-> c]

\* a two-digit number such as "05" or "28"
D(v) == Tok("num", v, 2, 0)

\* a four-digit number such as "2019"
Y(v) == Tok("num", v, 4, 0)

\* a month name such as "Dec."
M(m) == Tok("mon", m, 0, 0)

\* a time of day "HH:MM" or "HH:MM:SS"
T(h, mi, s) == Tok("time", h, mi, s)

\* an upper-case zone abbreviation: "UTC" (u = 1), which dateutil attaches
\* as a zone, or "PST" (u = 0), which it reads and drops as unknown (the
\* host's own zone is taken not to be PST)
TZ(u) == Tok("tz", u, 0, 0)

\* extra whitespace
WS == Tok("ws", 0, 0, 0)

\* the dash separating the two halves of a range
SEP == Tok("sep", 0, 0, 0)

\* ------------------------------------------------- civil calendar
IsLeap(y) == (y % 4 = 0) /\ ((y % 100 # 0) \/ (y % 400 = 0))

DaysInMonth(y, m) ==
  CASE m = 2 -> IF IsLeap(y) THEN 29 ELSE 28
    [] m \in {4, 6, 9, 11} -> 30
    [] OTHER -> 31

DaysBeforeYear(y) ==
  (y - 1) * 365 + ((y - 1) \div 4) - ((y - 1) \div 100) + ((y - 1) \div 400)

RECURSIVE DaysBeforeMonth(_, _)
DaysBeforeMonth(y, m) ==
  IF m <= 1 THEN 0 ELSE DaysBeforeMonth(y, m - 1) + DaysInMonth(y, m - 1)

ToOrdinal(dt) == DaysBeforeYear(dt.y) + DaysBeforeMonth(dt.y, dt.mo) + dt.d

\* Monday = 0 .. Sunday = 6
Weekday(dt) == (ToOrdinal(dt) + 6) % 7

\* (b - a).total_seconds() of two civil date-times
SecondsBetween(a, b) ==
  (ToOrdinal(b) - ToOrdinal(a)) * 86400
    + (b.h - a.h) * 3600 + (b.mi - a.mi) * 60 + (b.s - a.s)

\* a < b on naive date-times
Before(a, b) == SecondsBetween(a, b) > 0

\* ------------------------------------- dateutil.parser.parse(fuzzy=True)
\* The parser's running result: the year/month/day candidates in the order
\* read (ymd), the 1-based places of the month name and of the century-
\* bearing year among them (0: none), and the time and zone read so far.
ParseStart ==
  [ymd |-> <<>>, mi |-> 0, yi |-> 0, cs |-> FALSE,
   h |-> None, m |-> None, s |-> None, tzset |-> FALSE, utc |-> FALSE,
   err |-> FALSE]

\* _ymd.append(value) for a number read as a year, month or day candidate
YmdAppendNum(st, v) ==
  IF v > 100
    THEN IF st.yi # 0
           THEN [st EXCEPT !.err = TRUE]
           ELSE [st EXCEPT !.ymd = Append(@, v), !.yi = Len(st.ymd) + 1,
                           !.cs = TRUE]
    ELSE [st EXCEPT !.ymd = Append(@, v)]

\* _ymd.append(value, 'M') for a month name
YmdAppendMonth(st, v) ==
  IF st.mi # 0
    THEN [st EXCEPT !.err = TRUE]
    ELSE [st EXCEPT !.ymd = Append(@, v), !.mi = Len(st.ymd) + 1]

\* one token of parser._parse / _parse_numeric_token
ParseToken(st, t) ==
  CASE t.k = "num" ->
         IF Len(st.ymd) = 3 /\ IsNone(st.h)
           THEN \* "19990101T23[59]": a trailing number after a full date is HH[MM]
                IF t.b = 4
                  THEN [st EXCEPT !.h = Some(t.a \div 100), !.m = Some(t.a % 100)]
                  ELSE [st EXCEPT !.h = Some(t.a)]
           ELSE YmdAppendNum(st, t.a)
    [] t.k = "mon" -> YmdAppendMonth(st, t.a)
    [] t.k = "time" ->
         [st EXCEPT !.h = Some(t.a), !.m = Some(t.b), !.s = Some(t.c)]
    [] t.k = "tz" ->
         IF ~IsNone(st.h) /\ ~st.tzset
           THEN [st EXCEPT !.tzset = TRUE, !.utc = (t.a = 1)]
           ELSE st
    [] OTHER -> st

RECURSIVE ParseTokens(_, _, _)
ParseTokens(st, toks, i) ==
  IF i > Len(toks) \/ st.err THEN st
  ELSE ParseTokens(ParseToken(st, toks[i]), toks, i + 1)

\* _ymd.resolve_ymd(yearfirst=False, dayfirst=False): <<year, month, day>>,
\* each optional; err when more than three candidates were read.
ResolveYmd(st) ==
  LET v == st.ymd
      n == Len(v)
      labels == (IF st.mi # 0 THEN 1 ELSE 0) + (IF st.yi # 0 THEN 1 ELSE 0)
      R(y, m, d) == [err |-> FALSE, y |-> y, m |-> m, d |-> d]
  IN
  IF n = 0 THEN R(None, None, None)
  ELSE IF n = labels
    THEN R(IF st.yi # 0 THEN Some(v[st.yi]) ELSE None,
           IF st.mi # 0 THEN Some(v[st.mi]) ELSE None, None)
  ELSE IF n = 3 /\ labels = 2
    THEN R(Some(v[st.yi]), Some(v[st.mi]), Some(v[6 - st.yi - st.mi]))
  ELSE IF n > 3 THEN [err |-> TRUE, y |-> None, m |-> None, d |-> None]
  ELSE IF n = 1
    THEN IF v[1] > 31 THEN R(Some(v[1]), None, None)
                      ELSE R(None, None, Some(v[1]))
  ELSE IF n = 2 /\ st.mi # 0
    THEN LET other == v[3 - st.mi]
         IN IF other > 31 THEN R(Some(other), Some(v[st.mi]), None)
                          ELSE R(None, Some(v[st.mi]), Some(other))
  ELSE IF n = 2
    THEN IF v[1] > 31 THEN R(Some(v[1]), Some(v[2]), None)
         ELSE IF v[2] > 31 THEN R(Some(v[2]), Some(v[1]), None)
         ELSE R(None, Some(v[1]), Some(v[2]))
  ELSE IF st.mi = 1
    THEN IF v[2] > 31 THEN R(Some(v[2]), Some(v[1]), Some(v[3]))
                      ELSE R(Some(v[3]), Some(v[1]), Some(v[2]))
  ELSE IF st.mi = 2
    THEN IF v[1] > 31 THEN R(Some(v[1]), Some(v[2]), Some(v[3]))
                      ELSE R(Some(v[3]), Some(v[2]), Some(v[1]))
  ELSE IF st.mi = 3
    THEN IF v[2] > 31 THEN R(Some(v[2]), Some(v[3]), Some(v[1]))
                      ELSE R(Some(v[1]), Some(v[3]), Some(v[2]))
  ELSE IF v[1] > 31 \/ st.yi = 1
    THEN R(Some(v[1]), Some(v[2]), Some(v[3]))
  ELSE IF v[1] > 12
    THEN R(Some(v[3]), Some(v[2]), Some(v[1]))
  ELSE R(Some(v[3]), Some(v[1]), Some(v[2]))

\* parserinfo.convertyear: a year without century is placed within fifty
\* years of the current year.
ConvertYear(y, cs, now) ==
  IF y < 100 /\ ~cs
    THEN LET c == y + (now.y \div 100) * 100
         IN IF c >= now.y + 50 THEN c - 100
            ELSE IF c < now.y - 50 THEN c + 100
            ELSE c
    ELSE y

\* parser._build_naive: the fields read replace those of the default, which
\* is midnight of the current day; an impossible date is an error.
BuildNaive(st, r, now) ==
  LET y  == IF IsNone(r.y) THEN now.y ELSE ConvertYear(Val(r.y), st.cs, now)
      mo == IF IsNone(r.m) THEN now.mo ELSE Val(r.m)
      h  == IF IsNone(st.h) THEN 0 ELSE Val(st.h)
      mi == IF IsNone(st.m) THEN 0 ELSE Val(st.m)
      s  == IF IsNone(st.s) THEN 0 ELSE Val(st.s)
  IN
  IF ~(mo \in 1..12 /\ y \in 1..9999 /\ h \in 0..23 /\ mi \in 0..59 /\ s \in 0..59)
    THEN None
    ELSE LET dim == DaysInMonth(y, mo)
             d == IF IsNone(r.d) THEN (IF now.d > dim THEN dim ELSE now.d)
                                 ELSE Val(r.d)
         IN IF d \in 1..dim
              THEN Some([y |-> y, mo |-> mo, d |-> d, h |-> h, mi |-> mi,
                         s |-> s, aware |-> (st.tzset /\ st.utc)])
              ELSE None

\* dateparser.parse(text, fuzzy=True): Some(datetime), or None when the
\* library raises ParserError (a ValueError).
DateutilParse(toks, now) ==
  LET st == ParseTokens(ParseStart, toks, 1)
  IN IF st.err THEN None
     ELSE LET r == ResolveYmd(st)
          IN IF r.err THEN None
             ELSE IF Len(st.ymd) = 0 /\ IsNone(st.h) THEN None
             ELSE BuildNaive(st, r, now)

\* ------------------------------------------------- parse_ctftime_date
\* date_str.strip() == "": nothing but whitespace
IsBlank(text) == \A i \in 1..Len(text) : text[i].k = "ws"

\* the tokens of a text that text.split() yields
RECURSIVE Words(_)
Words(text) ==
  IF text = <<>> THEN <<>>
  ELSE IF Head(text).k = "ws" THEN Words(Tail(text))
  ELSE <<Head(text)>> \o Words(Tail(text))

\* whitespace next to a dash belongs to the separator (\s* on either side)
RECURSIVE LStrip(_)
LStrip(text) ==
  IF text # <<>> /\ Head(text).k = "ws" THEN LStrip(Tail(text)) ELSE text

RECURSIVE RStrip(_)
RStrip(text) ==
  IF text # <<>> /\ text[Len(text)].k = "ws"
    THEN RStrip(SubSeq(text, 1, Len(text) - 1)) ELSE text

\* re.split(r'\s*[dash]\s*', date_str): the parts between the dashes
RECURSIVE SplitFrom(_, _, _)
SplitFrom(text, i, cur) ==
  IF i > Len(text) THEN <<cur>>
  ELSE IF text[i].k = "sep"
    THEN <<RStrip(cur)>> \o SplitFrom(LStrip(SubSeq(text, i + 1, Len(text))), 1, <<>>)
  ELSE SplitFrom(text, i + 1, Append(cur, text[i]))

SplitDash(text) == SplitFrom(text, 1, <<>>)

\* str(year) in segment
YearIn(year, seg) ==
  \E i \in 1..Len(seg) : seg[i].k = "num" /\ seg[i].b = 4 /\ seg[i].a = year

\* 'jan' in segment.lower()
HasJan(seg) == \E i \in 1..Len(seg) : seg[i].k = "mon" /\ seg[i].a = 1

\* dt.replace(tzinfo=None) when a zone was attached
StripTz(o) == IF IsNone(o) THEN o ELSE Some([Val(o) EXCEPT !.aware = FALSE])

Absent == [start |-> None, end |-> None]

\* the sanity check of lines 57-62: an end before the start is re-read from
\* the first two words of the end segment with the following year
Rollover(start_dt, end_dt, end_str, year, now) ==
  IF Before(Val(end_dt), Val(start_dt))
    THEN LET w == Words(end_str)
         IN IF Len(w) < 2 THEN Absent
            ELSE LET again == DateutilParse(<<w[1], w[2], Y(year + 1)>>, now)
                 IN IF IsNone(again) THEN Absent
                    ELSE [start |-> start_dt, end |-> again]
    ELSE [start |-> start_dt, end |-> end_dt]

\* the end segment with the year the code appends to it (lines 46-51)
EndWithYear(end_str, start_dt, year) ==
  IF ~YearIn(year, end_str) /\ ~YearIn(year + 1, end_str)
    THEN IF HasJan(end_str) /\ Val(start_dt).mo = 12
           THEN Append(end_str, Y(year + 1))
           ELSE Append(end_str, Y(year))
    ELSE end_str

\* the start segment with the year the code appends to it (lines 38-40)
StartWithYear(start_str, year) ==
  IF ~YearIn(year, start_str) THEN Append(start_str, Y(year)) ELSE start_str

\* more or fewer than two parts is no range (lines 33-34)
BadPartCount(parts) == Len(parts) # 2

parse_ctftime_date(date_str, year, now) ==
  IF IsBlank(date_str) THEN Absent
  ELSE LET parts == SplitDash(date_str)
       IN IF BadPartCount(parts) THEN Absent
          ELSE LET start_dt == StripTz(DateutilParse(StartWithYear(parts[1], year), now))
               IN IF IsNone(start_dt) THEN Absent
                  ELSE LET end_str == EndWithYear(parts[2], start_dt, year)
                           end_dt == StripTz(DateutilParse(end_str, now))
                       IN IF IsNone(end_dt) THEN Absent
                          ELSE Rollover(start_dt, end_dt, end_str, year, now)

\* ------------------------------------------------- text to number
\* A number text is a sequence of one-character strings.
Digits == <<"0", "1", "2", "3", "4", "5", "6", "7", "8", "9">>

IsDigit(c) == \E i \in 1..10 : Digits[i] = c

DigitVal(c) == (CHOOSE i \in 1..10 : Digits[i] = c) - 1

RECURSIVE DigitsVal(_)
DigitsVal(t) ==
  IF t = <<>> THEN 0
  ELSE DigitsVal(SubSeq(t, 1, Len(t) - 1)) * 10 + DigitVal(t[Len(t)])

\* int(text): None stands for ValueError
IntOf(t) ==
  IF t # <<>> /\ \A i \in 1..Len(t) : IsDigit(t[i])
    THEN Some(DigitsVal(t)) ELSE None

\* float(text) in hundredths, for texts of at most two decimals: None
\* stands for ValueError
FloatOf(t) ==
  LET dots == {i \in 1..Len(t) : t[i] = "."}
      p == IF dots = {} THEN Len(t) + 1 ELSE CHOOSE i \in dots : TRUE
      whole == SubSeq(t, 1, p - 1)
      frac == SubSeq(t, p + 1, Len(t))
  IN IF /\ Cardinality(dots) <= 1
        /\ Len(whole) + Len(frac) > 0
        /\ Len(frac) <= 2
        /\ \A i \in 1..Len(t) : i \in dots \/ IsDigit(t[i])
       THEN Some(DigitsVal(whole) * 100
                   + (IF Len(frac) = 1 THEN 10 ELSE 1) * DigitsVal(frac))
       ELSE None

\* ------------------------------------------------- derived features
\* round(x, 2) of a non-negative quotient n / d, in hundredths when n is in
\* hundredths of d: the nearest integer.  An exact half goes to the even one
\* here; Python decides it by the binary value of the quotient.  The times
\* of the texts below are whole minutes or 36 seconds past one, and their
\* differences in hours are never an exact half of a hundredth.
RoundDiv(n, d) ==
  LET q == n \div d
      r == n % d
  IN IF 2 * r < d THEN q
     ELSE IF 2 * r > d THEN q + 1
     ELSE IF q % 2 = 0 THEN q ELSE q + 1

\* hours < 0 (line 73)
NegativeHours(secs) == secs < 0

\* get_duration_hours: raised is the TypeError of subtracting a naive and an
\* aware date-time; v is the rounded duration in hundredths of an hour.
get_duration_hours(start_dt, end_dt) ==
  IF IsNone(start_dt) \/ IsNone(end_dt) THEN [raised |-> FALSE, v |-> None]
  ELSE IF Val(start_dt).aware # Val(end_dt).aware
    THEN [raised |-> TRUE, v |-> None]
  ELSE LET secs == SecondsBetween(Val(start_dt), Val(end_dt))
       IN IF NegativeHours(secs) THEN [raised |-> FALSE, v |-> None]
          ELSE [raised |-> FALSE, v |-> Some(RoundDiv(secs, 36))]

\* round(duration_hours / 24, 2) if duration_hours else None (line 188):
\* a duration of 0.0 is falsy
DurationDays(duration_hours) ==
  IF IsNone(duration_hours) \/ Val(duration_hours) = 0 THEN None
  ELSE Some(RoundDiv(Val(duration_hours), 24))

\* the n of the "Qn" the code formats (line 80)
get_quarter(month) == ((month - 1) \div 3) + 1

get_season(month) ==
  CASE month \in {12, 1, 2} -> "Winter"
    [] month \in {3, 4, 5} -> "Spring"
    [] month \in {6, 7, 8} -> "Summer"
    [] OTHER -> "Fall"

\* a changed get_covid_era: March 2020 still counts as before
get_covid_era_MarchBefore(year, month) ==
  IF year < 2020 \/ (year = 2020 /\ month <= 3) THEN "Pre-COVID"
  ELSE IF year <= 2021 THEN "COVID"
  ELSE "Post-COVID"

get_covid_era(year, month) ==
  IF year < 2020 \/ (year = 2020 /\ month < 3) THEN "Pre-COVID"
  ELSE IF year <= 2021 THEN "COVID"
  ELSE "Post-COVID"

get_duration_category(hours) ==
  IF IsNone(hours) THEN None
  ELSE IF Val(hours) < 2400 THEN Some("Short")
  ELSE IF Val(hours) <= 4800 THEN Some("Medium")
  ELSE Some("Long")

\* a changed IsMultiDay: 24 hours counts as multi-day
IsMultiDay_Inclusive(duration_hours) ==
  IF ~IsNone(duration_hours) /\ Val(duration_hours) >= 2400 THEN 1 ELSE 0

\* 1 if duration_hours and duration_hours > 24 else 0 (line 211)
IsMultiDay(duration_hours) ==
  IF ~IsNone(duration_hours) /\ Val(duration_hours) > 2400 THEN 1 ELSE 0

\* duration_hours and duration_hours > 168 (line 191)
IsOutlier(duration_hours) ==
  ~IsNone(duration_hours) /\ Val(duration_hours) > 16800

get_weight_category(weight) ==
  IF weight = 0 THEN "Zero"
  ELSE IF weight < 2500 THEN "Low"
  ELSE IF weight <= 5000 THEN "Medium"
  ELSE "High"

standardize_location(location_raw) ==
  IF location_raw \in {"On-line", "Online"} THEN "Online"
  ELSE IF location_raw \in {"In-person", "On-site"} THEN "On-site"
  ELSE location_raw

standardize_format(format_raw) ==
  IF format_raw = "Hack-Quest" THEN "Jeopardy"
  ELSE IF format_raw \in {"Jeopardy", "Attack-Defense", "Hybrid", "King-of-the-Hill"}
    THEN format_raw
  ELSE "Other"

DayNames ==
  <<"Monday", "Tuesday", "Wednesday", "Thursday", "Friday", "Saturday", "Sunday">>

\* keyword in text.lower(), for the names and notes of the model
Contains(text, keyword) ==
  <<text, keyword>> \in
    {<<"DEFCON Quals", "qual">>, <<"DEFCON Finals", "final">>,
     <<"Semifinal Prelims", "final">>, <<"Semifinal Prelims", "prelim">>,
     <<"prequalified for finals", "prequalified">>,
     <<"prequalified for finals", "qual">>,
     <<"prequalified for finals", "final">>}

IsQualifier(name) ==
  IF Contains(name, "qual") \/ Contains(name, "prelim") THEN 1 ELSE 0

IsFinals(name) == IF Contains(name, "final") THEN 1 ELSE 0

IsPrequalified(notes) ==
  IF notes # "N/A" /\ Contains(notes, "prequalified") THEN 1 ELSE 0

\* ------------------------------------------------- enrich_event
\* the entry appended to parse_failures (lines 161-165)
FailureEntry(event) ==
  [event_id |-> event.event_id, name |-> event.name, date_raw |-> event.date_raw]

\* the entry appended to duration_outliers (lines 192-196)
OutlierEntry(event, duration_hours) ==
  [event_id |-> event.event_id, name |-> event.name,
   duration_hours |-> Val(duration_hours)]

\* the columns that do not depend on the date (both branches)
Common(event, year, weight, event_sequence) ==
  [event_id |-> event.event_id, name |-> event.name, year |-> event.year,
   date_raw |-> event.date_raw, weight |-> event.weight, notes |-> event.notes,
   location |-> standardize_location(event.location),
   format |-> standardize_format(event.format),
   weight_category |-> get_weight_category(weight),
   is_qualifier |-> IsQualifier(event.name),
   is_finals |-> IsFinals(event.name),
   year_index |-> year - 2015,
   event_sequence_in_year |-> event_sequence]

\* the record of an event whose date did not parse (lines 167-183)
EnrichedFailed(event, year, weight, event_sequence) ==
  [c |-> Common(event, year, weight, event_sequence),
   start_date |-> None, end_date |-> None,
   start_datetime |-> None, end_datetime |-> None,
   duration_hours |-> None, duration_days |-> None,
   start_month |-> None, start_quarter |-> None,
   start_day_of_week |-> None, is_weekend |-> None, season |-> None,
   covid_era |-> get_covid_era(year, 1),
   is_multi_day |-> None, duration_category |-> None,
   is_prequalified |-> IF Contains(event.notes, "prequalified") THEN 1 ELSE 0]

\* strftime('%Y-%m-%d')
DateOf(dt) == [y |-> dt.y, mo |-> dt.mo, d |-> dt.d]

\* strftime('%Y-%m-%d %H:%M:%S')
DateTimeOf(dt) ==
  [y |-> dt.y, mo |-> dt.mo, d |-> dt.d, h |-> dt.h, mi |-> dt.mi, s |-> dt.s]

\* the record of an event whose date parsed (lines 198-219)
EnrichedParsed(event, year, weight, event_sequence, start_dt, end_dt, duration_hours) ==
  [c |-> Common(event, year, weight, event_sequence),
   start_date |-> Some(DateOf(start_dt)), end_date |-> Some(DateOf(end_dt)),
   start_datetime |-> Some(DateTimeOf(start_dt)),
   end_datetime |-> Some(DateTimeOf(end_dt)),
   duration_hours |-> duration_hours,
   duration_days |-> DurationDays(duration_hours),
   start_month |-> Some(start_dt.mo),
   start_quarter |-> Some(get_quarter(start_dt.mo)),
   start_day_of_week |-> Some(DayNames[Weekday(start_dt) + 1]),
   is_weekend |-> Some(IF Weekday(start_dt) >= 4 THEN 1 ELSE 0),
   season |-> Some(get_season(start_dt.mo)),
   covid_era |-> get_covid_era(year, start_dt.mo),
   is_multi_day |-> Some(IsMultiDay(duration_hours)),
   duration_category |-> get_duration_category(duration_hours),
   is_prequalified |-> IsPrequalified(event.notes)]

\* What one call of enrich_event does.  raised: an exception leaves the
\* method; otherwise enriched is the record returned, failures and outliers
\* are what the call appends to parse_failures and duration_outliers (<<>> or
\* one entry).  parsed is what parse_ctftime_date returned, when it was called.
Raised(parsed) ==
  [raised |-> TRUE, enriched |-> None, failures |-> <<>>, outliers |-> <<>>,
   parsed |-> parsed]

\* lines 160-184: the date did not parse
FailedOutcome(event, year, weight, event_sequence, p) ==
  [raised |-> FALSE,
   enriched |-> Some(EnrichedFailed(event, year, weight, event_sequence)),
   failures |-> <<FailureEntry(event)>>, outliers |-> <<>>, parsed |-> Some(p)]

\* lines 186-221: the date parsed; dur is what get_duration_hours did
ParsedOutcome(event, year, weight, event_sequence, p, dur) ==
  IF dur.raised THEN Raised(Some(p))
  ELSE [raised |-> FALSE,
        enriched |-> Some(EnrichedParsed(event, year, weight, event_sequence,
                                         Val(p.start), Val(p.end), dur.v)),
        failures |-> <<>>,
        outliers |-> IF IsOutlier(dur.v) THEN <<OutlierEntry(event, dur.v)>>
                                         ELSE <<>>,
        parsed |-> Some(p)]

\* start_dt is None or end_dt is None (line 160)
ParseFailed(p) == IsNone(p.start) \/ IsNone(p.end)

\* lines 158-221, with the interval p that parse_ctftime_date returned
AfterParse(event, year, weight, event_sequence, p) ==
  IF ParseFailed(p)
    THEN FailedOutcome(event, year, weight, event_sequence, p)
    ELSE ParsedOutcome(event, year, weight, event_sequence, p,
                       get_duration_hours(p.start, p.end))

\* lines 147-158, with the year and weight that int() and float() gave
\* (None: ValueError)
AfterCoercion(event, year, weight, event_sequence, now) ==
  IF IsNone(year) \/ IsNone(weight) THEN Raised(None)
  ELSE AfterParse(event, Val(year), Val(weight), event_sequence,
                  parse_ctftime_date(event.date_raw, Val(year), now))

\* enrich_event(event, event_sequence) at wall-clock date now
enrich_event(event, event_sequence, now) ==
  AfterCoercion(event, IntOf(event.year), FloatOf(event.weight),
                event_sequence, now)

\* ------------------------------------------------- inputs
Date(y, mo, d) == [y |-> y, mo |-> mo, d |-> d]

\* the wall-clock dates a run may see (datetime.now() inside dateutil)
Todays == {Date(2020, 3, 31), Date(2020, 11, 1)}

Later(a, b) == ToOrdinal(b) > ToOrdinal(a)

Txt2019 == <<"2", "0", "1", "9">>

Txt2020 == <<"2", "0", "2", "0">>

Row(name, year, date_raw, weight, notes) ==
  [event_id |-> 0, name |-> name, year |-> year, date_raw |-> date_raw,
   format |-> "Hack-Quest", location |-> "On-line", weight |-> weight,
   notes |-> notes]

\* "27 Dec., 12:00 PST - 29 Dec. 2019, 12:00 PST": 48 hours
TwoDays ==
  <<D(27), M(12), T(12, 0, 0), TZ(0), SEP, D(29), M(12), Y(2019), T(12, 0, 0), TZ(0)>>

\* "05 Jan. - 12 Jan., 12:00": 180 hours
LongWeek == <<D(5), M(1), SEP, D(12), M(1), T(12, 0, 0)>>

\* "05 Jan. - 12 Jan.": exactly 168 hours
OneWeek == <<D(5), M(1), SEP, D(12), M(1)>>

\* "12:00 - 14:00": no day and no month
TimesOnly == <<T(12, 0, 0), SEP, T(14, 0, 0)>>

\* "28 Dec. - 12:00 UTC 27 Dec.": the end is re-read from "12:00 UTC"
ZoneFirst == <<D(28), M(12), SEP, T(12, 0, 0), TZ(1), D(27), M(12)>>

\* the rows a file is made of
RowKinds ==
  {Row("DEFCON Quals", Txt2019, TwoDays, <<"2", "5">>, "N/A"),
   Row("X CTF", Txt2019, <<>>, <<"0">>, "prequalified for finals"),
   Row("DEFCON Finals", Txt2020, LongWeek, <<"5", "0", ".", "5">>, "N/A"),
   Row("X CTF", Txt2020, OneWeek, <<"0">>, "N/A"),
   Row("X CTF", <<"a", "b", "c">>, TwoDays, <<"0">>, "N/A"),
   Row("X CTF", Txt2019, TwoDays, <<>>, "N/A"),
   Row("X CTF", Txt2019, TimesOnly, <<"0">>, "N/A"),
   Row("X CTF", Txt2019, ZoneFirst, <<"0">>, "N/A")}

\* the files of at most MaxRows rows; event_id is the row's number, as
\* CTFParser.parse_line assigned it
Files ==
  UNION {{[i \in 1..n |-> [f[i] EXCEPT !.event_id = i]] : f \in [1..n -> RowKinds]}
           : n \in 0..MaxRows}

\* ------------------------------------------------- the run
NoCounters == [y \in {} |-> 0]

Count(seqs, year) == IF year \in DOMAIN seqs THEN seqs[year] ELSE 0

\* a changed Bump: one running counter, started again when the year changes
Bump_ResetOnChange(seqs, year) == [y \in {year} |-> Count(seqs, year) + 1]

\* year_sequences[year] = year_sequences.get(year, 0) + 1 (line 233)
Bump(seqs, year) ==
  [y \in DOMAIN seqs \cup {year} |-> IF y = year THEN Count(seqs, year) + 1 ELSE seqs[y]]

RunStart ==
  /\ pc = "idle" /\ pos = 0 /\ events = <<>> /\ year_sequences = NoCounters
  /\ parse_failures = <<>> /\ duration_outliers = <<>>
  /\ results = <<>> /\ runs = 0 /\ fresh = TRUE /\ last_parse = None

Init == file \in Files /\ today \in Todays /\ RunStart

\* enrich_dataset is entered: events = [], year_sequences = {} (lines 225-226)
Enter ==
  /\ pc' = "loop"
  /\ pos' = 1
  /\ events' = <<>>
  /\ year_sequences' = NoCounters
  /\ runs' = runs + 1
  /\ UNCHANGED <<file, today, results, last_parse>>

\* main(): a new CTFDataEnricher (lines 15-17) runs enrich_dataset
BeginNew ==
  /\ pc \in {"idle", "returned", "raised"}
  /\ parse_failures' = <<>>
  /\ duration_outliers' = <<>>
  /\ fresh' = TRUE
  /\ Enter

\* enrich_dataset is called again on the enricher of the run before
BeginAgain ==
  /\ pc \in {"returned", "raised"}
  /\ fresh' = FALSE
  /\ UNCHANGED <<parse_failures, duration_outliers>>
  /\ Enter

\* what a run that ends in an exception hands to its caller: nothing
Aborted == [ok |-> FALSE, events |-> <<>>]

\* events.append(...) (line 234)
Emit(evs, r) == Append(evs, Val(r.enriched))

\* an exception leaves enrich_dataset: the run hands nothing to its caller
Abort ==
  /\ pc' = "raised"
  /\ results' = Append(results, Aborted)
  /\ UNCHANGED <<pos, events, parse_failures, duration_outliers>>

\* the history of the last parse_ctftime_date call: its arguments and result
Recorded(row, year, r) ==
  IF IsNone(r.parsed) THEN last_parse
  ELSE Some([text |-> row.date_raw, year |-> year, now |-> today,
             start |-> Val(r.parsed).start, end |-> Val(r.parsed).end])

\* line 234, with the outcome r of enrich_event
Collect(row, year, seqs, r) ==
  /\ year_sequences' = seqs
  /\ last_parse' = Recorded(row, year, r)
  /\ IF r.raised
       THEN Abort
       ELSE /\ events' = Emit(events, r)
            /\ parse_failures' = parse_failures \o r.failures
            /\ duration_outliers' = duration_outliers \o r.outliers
            /\ pos' = pos + 1
            /\ UNCHANGED <<pc, results>>

\* lines 233-234, with the counters seqs after line 233
Enrich(row, year, seqs) ==
  Collect(row, year, seqs, enrich_event(row, seqs[year], today))

\* lines 232-234, with the year that int() gave (None: ValueError)
Body(row, year) ==
  IF IsNone(year)
    THEN Abort /\ UNCHANGED <<year_sequences, last_parse>>
    ELSE Enrich(row, Val(year), Bump(year_sequences, Val(year)))

\* one pass of the loop body (lines 231-234): the next row is read and
\* enriched, or an exception leaves enrich_dataset
Step ==
  /\ pc = "loop"
  /\ pos <= Len(file)
  /\ Body(file[pos], IntOf(file[pos].year))
  /\ UNCHANGED <<file, today, runs, fresh>>

\* the reader is exhausted: return events (line 240)
Return ==
  /\ pc = "loop"
  /\ pos > Len(file)
  /\ pc' = "returned"
  /\ results' = Append(results, [ok |-> TRUE, events |-> events])
  /\ UNCHANGED <<file, today, pos, events, year_sequences, parse_failures,
                 duration_outliers, runs, fresh, last_parse>>

\* the wall clock moves on
Tick ==
  /\ \E t \in Todays : Later(today, t) /\ today' = t
  /\ UNCHANGED <<file, pc, pos, events, year_sequences, parse_failures,
                 duration_outliers, results, runs, fresh, last_parse>>

Next ==
  \/ (runs < MaxRuns /\ BeginNew)
  \/ (runs < MaxRuns /\ BeginAgain)
  \/ Step
  \/ Return
  \/ Tick

Spec == Init /\ [][Next]_vars

\* ------------------------------------------------- one event, many texts
\* the halves of a range
Segments ==
  {<<D(5), M(1)>>,
   <<D(5), M(1), T(12, 0, 0)>>,
   <<D(5), M(1), T(12, 0, 36)>>,
   <<D(6), M(1), T(12, 0, 0)>>,
   <<D(6), M(1), T(12, 0, 36)>>,
   <<D(7), M(1), T(12, 0, 0)>>,
   <<D(7), M(1), T(12, 0, 36)>>,
   <<D(28), M(12)>>,
   <<D(2), M(1)>>,
   <<D(12), M(1)>>,
   <<D(5), M(3), Y(2020)>>,
   <<D(6), M(2), Y(2020)>>,
   <<D(2), M(1), Y(2021)>>,
   <<D(29), M(12), Y(2019), T(12, 0, 0), TZ(0)>>,
   <<T(12, 0, 0), TZ(1), D(27), M(12)>>,
   <<T(12, 0, 0)>>,
   <<M(2)>>,
   <<>>}

\* the halves used in texts of two dashes
FewSegments == {<<D(5), M(1)>>, <<D(28), M(12)>>, <<>>}

DateTexts ==
  {<<>>, <<WS>>, <<WS, WS>>}
    \cup Segments
    \cup {a \o <<SEP>> \o b : a \in Segments, b \in Segments}
    \cup {<<WS>> \o a \o <<WS, SEP, WS>> \o b : a \in FewSegments, b \in FewSegments}
    \cup {a \o <<SEP>> \o b \o <<SEP>> \o c :
            a \in FewSegments, b \in FewSegments, c \in FewSegments}

OneRowFiles ==
  {<<[Row("X CTF", y, t, <<"0">>, "N/A") EXCEPT !.event_id = 1]>> :
     y \in {Txt2019, Txt2020}, t \in DateTexts}

InitOne == file \in OneRowFiles /\ today \in Todays /\ RunStart

NextOne ==
  \/ (runs < 1 /\ BeginNew)
  \/ Step
  \/ Return
  \/ Tick

SpecOne == InitOne /\ [][NextOne]_vars

\* ------------------------------------------------- one event, four years
Txt2021 == <<"2", "0", "2", "1">>

Txt2022 == <<"2", "0", "2", "2">>

EraFiles ==
  {<<[Row("X CTF", y, t, <<"0">>, "N/A") EXCEPT !.event_id = 1]>> :
     y \in {Txt2019, Txt2020, Txt2021, Txt2022}, t \in DateTexts}

InitEra == file \in EraFiles /\ today \in Todays /\ RunStart

SpecEra == InitEra /\ [][NextOne]_vars

\* ------------------------------------------------- properties
\* the rows of the file are raw events: year and weight are numbers
RawEvents ==
  \A i \in 1..Len(file) : ~IsNone(IntOf(file[i].year)) /\ ~IsNone(FloatOf(file[i].weight))

\* the i-th record of evs is the enrichment of the i-th row of the file
SameEvent(evs, i) ==
  /\ evs[i].c.event_id = file[i].event_id
  /\ evs[i].c.name = file[i].name
  /\ evs[i].c.date_raw = file[i].date_raw

\* what a finished run handed to its caller has one record per row, in order
OneToOne(res) ==
  /\ Len(res.events) = Len(file)
  /\ \A i \in 1..Len(res.events) : SameEvent(res.events, i)

\* C1: for every input sequence of raw events, a run of enrich_dataset hands
\* its caller exactly one enriched record per input record, in input order,
\* carrying that record's event_id, name and date_raw.
C1_OneRecordPerInput ==
  RawEvents => \A k \in 1..Len(results) : OneToOne(results[k])

\* the number of rows up to the i-th that have the year of the i-th
PositionInYear(i) ==
  Cardinality({j \in 1..i : IntOf(file[j].year) = IntOf(file[i].year)})

\* C2: in the records a run has produced, event_sequence_in_year is the
\* 1-based position of the record among the input records of its year, in
\* input order, also when the years are interleaved.
C2_SequenceInYear ==
  pc \in {"loop", "returned"} =>
    \A i \in 1..Len(events) : events[i].c.event_sequence_in_year = PositionInYear(i)

\* a returned run over years 2019, 2020, 2019 numbered 1, 1, 2
C2_Witness ==
  /\ pc = "returned"
  /\ Len(events) = 3
  /\ IntOf(file[1].year) = Some(2019)
  /\ IntOf(file[2].year) = Some(2020)
  /\ IntOf(file[3].year) = Some(2019)
  /\ events[1].c.event_sequence_in_year = 1
  /\ events[2].c.event_sequence_in_year = 1
  /\ events[3].c.event_sequence_in_year = 2

\* the date-derived columns of a record
DateColumns(e) ==
  <<e.start_date, e.end_date, e.start_datetime, e.end_datetime,
    e.duration_hours, e.duration_days, e.start_month, e.start_quarter,
    e.start_day_of_week, e.is_weekend, e.season, e.is_multi_day,
    e.duration_category>>

AllOrNothing(e) ==
  \/ \A i \in 1..Len(DateColumns(e)) : IsNone(DateColumns(e)[i])
  \/ \A i \in 1..Len(DateColumns(e)) : ~IsNone(DateColumns(e)[i])

\* C3: every enriched record has its date-derived columns all present or all
\* absent, also when the duration is 0 hours or negative.
C3_AllOrNothing == \A i \in 1..Len(events) : AllOrNothing(events[i])

\* C4: when parse_ctftime_date returns both timestamps, the end is not
\* earlier than the start.
C4_EndNotBeforeStart ==
  (~IsNone(last_parse) /\ ~IsNone(Val(last_parse).start) /\ ~IsNone(Val(last_parse).end))
    => ~Before(Val(Val(last_parse).end), Val(Val(last_parse).start))

\* the parse_failures entry of a record
FailureOf(e) ==
  [event_id |-> e.c.event_id, name |-> e.c.name, date_raw |-> e.c.date_raw]

RECURSIVE FailuresOf(_)
FailuresOf(evs) ==
  IF evs = <<>> THEN <<>>
  ELSE (IF IsNone(Head(evs).start_date) THEN <<FailureOf(Head(evs))>> ELSE <<>>)
         \o FailuresOf(Tail(evs))

Parsed(evs) == {i \in 1..Len(evs) : ~IsNone(evs[i].start_date)}

\* a run has ended, by a return or by an exception
Ended == pc \in {"returned", "raised"}

\* what the run that ended last handed to its caller
Output == results[Len(results)].events

\* C5: after a run on a fresh enricher, parse_failures holds, in input
\* order, one entry {event_id, name, date_raw} for each event whose date did
\* not resolve and none for the others; each such event is in the output with
\* its date columns absent, and the output records with a start_date and the
\* failures add up to the input.
C5_FailuresRecorded ==
  (fresh /\ Ended) =>
    /\ parse_failures = FailuresOf(Output)
    /\ \A i \in 1..Len(Output) :
         IsNone(Output[i].start_date) =>
           \A c \in 1..Len(DateColumns(Output[i])) : IsNone(DateColumns(Output[i])[c])
    /\ Cardinality(Parsed(Output)) + Len(parse_failures) = Len(file)

\* C6: a run always completes: no exception raised while processing one
\* record leaves enrich_dataset, and every run emits the records before and
\* after a record whose year or weight is not a number.
C6_RunCompletes ==
  /\ pc # "raised"
  /\ \A k \in 1..Len(results) : results[k].ok /\ Len(results[k].events) >= Len(file) - 1

\* the duration_outliers entry of a record
OutlierOf(e) ==
  [event_id |-> e.c.event_id, name |-> e.c.name,
   duration_hours |-> Val(e.duration_hours)]

RECURSIVE OutliersOf(_)
OutliersOf(evs) ==
  IF evs = <<>> THEN <<>>
  ELSE (IF ~IsNone(Head(evs).duration_hours) /\ Val(Head(evs).duration_hours) > 16800
          THEN <<OutlierOf(Head(evs))>> ELSE <<>>)
         \o OutliersOf(Tail(evs))

\* C7: after a run on a fresh enricher, duration_outliers holds, in input
\* order, one entry {event_id, name, duration_hours} for each event whose
\* duration exceeds 168 hours and none for the others; every such event is in
\* the output, with the recorded duration_hours.
C7_OutliersRecorded ==
  (fresh /\ Ended) => duration_outliers = OutliersOf(Output)

\* C8: a second run over the same input hands its caller what the first
\* run did, whatever the wall-clock dates of the two runs and whatever the
\* first run left behind.
C8_SameOutputTwice ==
  \A k \in 2..Len(results) : results[k] = results[1]

\* a text that is empty, blank, or not two non-empty parts around one dash
Malformed(text) ==
  \/ IsBlank(text)
  \/ Len(SplitDash(text)) # 2
  \/ \E i \in 1..Len(SplitDash(text)) : SplitDash(text)[i] = <<>>

\* C9: parse_ctftime_date returns (None, None) for every text that is
\* empty, blank, or does not split into exactly two non-empty segments.
C9_MalformedIsAbsent ==
  (~IsNone(last_parse) /\ Malformed(Val(last_parse).text))
    => (IsNone(Val(last_parse).start) /\ IsNone(Val(last_parse).end))

\* "05 Jan., 12:00 - 06 Jan., 12:00": exactly 24 hours
OneDay == <<D(5), M(1), T(12, 0, 0), SEP, D(6), M(1), T(12, 0, 0)>>

\* "05 Jan., 12:00 - 06 Jan., 12:00:36": 24.01 hours
OneDayPlus == <<D(5), M(1), T(12, 0, 0), SEP, D(6), M(1), T(12, 0, 36)>>

\* C10: for every record whose date parsed, is_multi_day is 1 exactly when
\* duration_hours is present and more than 24; duration_category is Short
\* below 24, Medium from 24 to 48 and Long above 48; at exactly 24 hours
\* is_multi_day is 0 and the category Medium, at 24.01 hours is_multi_day is 1.
C10_MultiDayAndCategory ==
  \A i \in 1..Len(events) :
    LET e == events[i]
        h == e.duration_hours
    IN ~IsNone(e.start_date) =>
         /\ e.is_multi_day = Some(IF ~IsNone(h) /\ Val(h) > 2400 THEN 1 ELSE 0)
         /\ ~IsNone(h) =>
              e.duration_category =
                Some(IF Val(h) < 2400 THEN "Short"
                     ELSE IF Val(h) <= 4800 THEN "Medium" ELSE "Long")
         /\ e.c.date_raw = OneDay =>
              h = Some(2400) /\ e.is_multi_day = Some(0)
                /\ e.duration_category = Some("Medium")
         /\ e.c.date_raw = OneDayPlus =>
              h = Some(2401) /\ e.is_multi_day = Some(1)

\* an event of exactly 24 hours was emitted
C10_Witness ==
  /\ Len(events) = 1
  /\ events[1].c.date_raw = OneDay
  /\ events[1].duration_hours = Some(2400)
  /\ events[1].is_multi_day = Some(0)
  /\ events[1].duration_category = Some("Medium")

\* the last parse_ctftime_date call read a range of two parts whose start
\* was parsed
RangeRead ==
  /\ ~IsNone(last_parse)
  /\ Len(SplitDash(Val(last_parse).text)) = 2
  /\ ~IsNone(StripTz(DateutilParse(
         StartWithYear(SplitDash(Val(last_parse).text)[1], Val(last_parse).year),
         Val(last_parse).now)))

\* the start the code parsed before it looked at the end segment (line 42)
StartRead ==
  Val(StripTz(DateutilParse(
        StartWithYear(SplitDash(Val(last_parse).text)[1], Val(last_parse).year),
        Val(last_parse).now)))

EndSegment == SplitDash(Val(last_parse).text)[2]

\* the end segment carries neither the reference year nor the year after it
NeitherYear ==
  /\ ~YearIn(Val(last_parse).year, EndSegment)
  /\ ~YearIn(Val(last_parse).year + 1, EndSegment)

\* a start in December of the reference year, an end segment that names
\* January and carries neither year
DecemberToJanuary ==
  /\ RangeRead
  /\ StartRead.y = Val(last_parse).year
  /\ StartRead.mo = 12
  /\ HasJan(EndSegment)
  /\ NeitherYear

\* a start in the last week of December, an end day in the first week of
\* January
NewYearWeek ==
  /\ StartRead.d >= 25
  /\ \E i \in 1..Len(EndSegment) :
       EndSegment[i].k = "num" /\ EndSegment[i].b = 2 /\ EndSegment[i].a \in 1..7

\* C11: a range from December of the reference year to a January end
\* segment that carries neither the reference year nor the year after it gets
\* an end in the year after the reference year and a positive duration; for a
\* start in the last week of December and an end day in the first week of
\* January the duration is under 168 hours and no outlier is recorded.  In
\* every other case where the end segment carries neither year the reference
\* year is appended to it.
C11_CrossYearEnd ==
  /\ DecemberToJanuary =>
       /\ ~IsNone(Val(last_parse).end)
       /\ Val(Val(last_parse).end).y = Val(last_parse).year + 1
       /\ Before(Val(Val(last_parse).start), Val(Val(last_parse).end))
       /\ NewYearWeek =>
            /\ SecondsBetween(Val(Val(last_parse).start), Val(Val(last_parse).end))
                 < 168 * 3600
            /\ duration_outliers = <<>>
  /\ (RangeRead /\ NeitherYear /\ ~(HasJan(EndSegment) /\ StartRead.mo = 12)) =>
       EndWithYear(EndSegment, Some(StartRead), Val(last_parse).year)
         = Append(EndSegment, Y(Val(last_parse).year))

\* the month covid_era is computed from: the start month, 1 without a date
EraMonth(e) == IF IsNone(e.start_date) THEN 1 ELSE Val(e.start_month)

EraYear(e) == Val(IntOf(e.c.year))

\* C12: every enriched record has covid_era, parsed date or not: Pre-COVID
\* for a year before 2020 or 2020 with a month before March, COVID for 2020
\* from March on or 2021, Post-COVID from 2022 on, where the month is the
\* parsed start month, or 1 when the date did not parse; so an event of 2020
\* without a parsed date is Pre-COVID.
C12_CovidEra ==
  \A i \in 1..Len(events) :
    /\ events[i].covid_era \in {"Pre-COVID", "COVID", "Post-COVID"}
    /\ events[i].covid_era = "Pre-COVID" <=>
         \/ EraYear(events[i]) < 2020
         \/ EraYear(events[i]) = 2020 /\ EraMonth(events[i]) < 3
    /\ events[i].covid_era = "COVID" <=>
         \/ EraYear(events[i]) = 2020 /\ EraMonth(events[i]) >= 3
         \/ EraYear(events[i]) = 2021
    /\ events[i].covid_era = "Post-COVID" <=> EraYear(events[i]) >= 2022
    /\ (IsNone(events[i].start_date) /\ EraYear(events[i]) = 2020) =>
         events[i].covid_era = "Pre-COVID"

\* an event of 2020 that starts in March was emitted as COVID
C12_Witness ==
  /\ Len(events) = 1
  /\ EraYear(events[1]) = 2020
  /\ events[1].start_month = Some(3)
  /\ events[1].covid_era = "COVID"

\* an event of 2020 whose date did not parse was emitted as Pre-COVID
C12_WitnessNoDate ==
  /\ Len(events) = 1
  /\ EraYear(events[1]) = 2020
  /\ IsNone(events[1].start_date)
  /\ events[1].covid_era = "Pre-COVID"

====
